---- MODULE Spec2Model ----
(***************************************************************************)
(* Model of the agreement-aggregation pipeline of src/src/app/page.tsx     *)
(* (component Home): the mount effect, getAndSetInstitutionAgreements,     *)
(* the select handlers and the label normaliser toTitleCase.               *)
(*                                                                         *)
(* A JavaScript string is modelled as the sequence of its UTF-16 code      *)
(* units (natural numbers), so that toLowerCase, toUpperCase, trim, the    *)
(* regular expressions and the default sort order are computed as the      *)
(* engine computes them.  A value that may be undefined (an optional       *)
(* field, the result of find or at) is modelled as a set: Absent, or the   *)
(* singleton of the value.                                                 *)
(***************************************************************************)
EXTENDS Naturals, Sequences, FiniteSets, TLC

Absent == {}

Some(v) == {v}

The(o) == CHOOSE v \in o : TRUE

\* o ?? d
OrElse(o, d) == IF o = Absent THEN d ELSE The(o)

\* the elements of an array
Range(f) == {f[j] : j \in DOMAIN f}

----------------------------------------------------------------------------
(* Bounds of the model *)

\* longest raw label fed to the normaliser
MaxLen == 4
\* most per-partner requests awaited by the join of line 95 (join alone)
MaxSettled == 3
\* longest agreement list answered by the upstream service (whole component)
MaxAgreements == 2
\* number of times the user changes the receiving institution
MaxSelects == 1

----------------------------------------------------------------------------
(* Strings: code units, character classes of the regular expressions *)

\* \s restricted to the code units of the model: space
IsSpace(c) == c = 32

\* \w is [A-Za-z0-9_]
IsWordChar(c) == \/ c \in 48..57
                 \/ c \in 65..90
                 \/ c = 95
                 \/ c \in 97..122

\* [A-Za-z]
IsAsciiLetter(c) == c \in 65..90 \/ c \in 97..122

\* String.prototype.toLowerCase on one code unit: ASCII, Latin-1 (U+00C0 to
\* U+00DE except U+00D7) and the Kelvin sign U+212A, whose lower case is "k"
ToLowerChar(c) ==
    IF c \in 65..90 THEN c + 32
    ELSE IF c \in 192..222 /\ c # 215 THEN c + 32
    ELSE IF c = 8490 THEN 107
    ELSE c

\* String.prototype.toUpperCase on one code unit: ASCII and Latin-1 (U+00E0
\* to U+00FE except U+00F7); the Kelvin sign is already upper case
ToUpperChar(c) ==
    IF c \in 97..122 THEN c - 32
    ELSE IF c \in 224..254 /\ c # 247 THEN c - 32
    ELSE c

toLowerCase(s) == [i \in 1..Len(s) |-> ToLowerChar(s[i])]

toUpperCase(s) == [i \in 1..Len(s) |-> ToUpperChar(s[i])]

\* String.prototype.trim
RECURSIVE TrimStart(_)
TrimStart(s) ==
    IF s # <<>> /\ IsSpace(Head(s)) THEN TrimStart(Tail(s)) ELSE s

RECURSIVE TrimEnd(_)
TrimEnd(s) ==
    IF s # <<>> /\ IsSpace(s[Len(s)]) THEN TrimEnd(SubSeq(s, 1, Len(s) - 1)) ELSE s

trim(s) == TrimEnd(TrimStart(s))

\* String.prototype.includes
includes(s, t) ==
    \E i \in 0..(Len(s) - Len(t)) : SubSeq(s, i + 1, i + Len(t)) = t

\* a < b in the default sort order: code unit by code unit, a proper prefix first
RECURSIVE StrLess(_, _)
StrLess(a, b) ==
    IF b = <<>> THEN FALSE
    ELSE IF a = <<>> THEN TRUE
    ELSE IF Head(a) # Head(b) THEN Head(a) < Head(b)
    ELSE StrLess(Tail(a), Tail(b))

----------------------------------------------------------------------------
(* toTitleCase, page.tsx lines 16-21 *)

\* IsInitialism with the quantifier {1,} in place of {2,}
IsInitialism_oneOrMore(word) ==
    \E n \in 1..Len(word) :
        /\ 2 * n <= Len(word)
        /\ \A k \in 1..n : IsAsciiLetter(word[2 * k - 1]) /\ word[2 * k] = 46
        /\ LET rest == SubSeq(word, 2 * n + 1, Len(word))
           IN \/ rest = <<>>
              \/ Len(rest) = 1 /\ (IsAsciiLetter(rest[1]) \/ rest[1] = 46)
              \/ Len(rest) = 2 /\ IsAsciiLetter(rest[1]) /\ rest[2] = 46

\* /^(?:[A-Za-z]\.){2,}[A-Za-z]?\.?$/.test(word)
IsInitialism(word) ==
    \E n \in 2..Len(word) :
        /\ 2 * n <= Len(word)
        /\ \A k \in 1..n : IsAsciiLetter(word[2 * k - 1]) /\ word[2 * k] = 46
        /\ LET rest == SubSeq(word, 2 * n + 1, Len(word))
           IN \/ rest = <<>>
              \/ Len(rest) = 1 /\ (IsAsciiLetter(rest[1]) \/ rest[1] = 46)
              \/ Len(rest) = 2 /\ IsAsciiLetter(rest[1]) /\ rest[2] = 46

\* the replacer of line 18-20, applied to one matched token
TitleWord(word) ==
    IF IsInitialism(word)
    THEN toUpperCase(word)
    ELSE <<ToUpperChar(word[1])>> \o toLowerCase(Tail(word))

\* end of the match of \w\S* that starts at i: the last code unit before the
\* next white space
RECURSIVE TokenEnd(_, _)
TokenEnd(s, i) ==
    IF i < Len(s) /\ ~IsSpace(s[i + 1]) THEN TokenEnd(s, i + 1) ELSE i

\* str.replace(/\w\S*/g, ...) from position i on: code units outside a match
\* are copied, each match is replaced by TitleWord of it
RECURSIVE ReplaceFrom(_, _)
ReplaceFrom(s, i) ==
    IF i > Len(s) THEN <<>>
    ELSE IF IsWordChar(s[i])
         THEN LET j == TokenEnd(s, i)
              IN TitleWord(SubSeq(s, i, j)) \o ReplaceFrom(s, j + 1)
         ELSE <<s[i]>> \o ReplaceFrom(s, i + 1)

toTitleCase(str) == ReplaceFrom(str, 1)

\* line 92: toTitleCase(( ... ).trim())
normalize(label) == toTitleCase(trim(label))

----------------------------------------------------------------------------
(* The join and merge of getAndSetInstitutionAgreements, lines 91-101 *)

Fulfilled(v) == [status |-> "fulfilled", value |-> v]

\* a rejected promise; reason is "cancel" (axios.isCancel) or "error"
Rejected(why) == [status |-> "rejected", reason |-> why]

\* MajorsOf leaving out the reports without label
MajorsOf_labelledOnly(majorsResp) ==
    IF majorsResp.reports = Absent THEN <<>>
    ELSE LET labelled == SelectSeq(The(majorsResp.reports),
                                   LAMBDA report : report.label # Absent)
         IN [k \in 1..Len(labelled) |-> normalize(The(labelled[k].label))]

\* lines 91-92: the value a per-partner request resolves with, from the body
\* of the response
MajorsOf(majorsResp) ==
    LET reports == OrElse(majorsResp.reports, <<>>)
    IN [k \in 1..Len(reports) |-> normalize(OrElse(reports[k].label, <<>>))]

\* FlatMapFulfilled as a join that gives up on the first rejection, the way
\* Promise.all does
RECURSIVE FlatMapFulfilled_allOrNothing(_)
FlatMapFulfilled_allOrNothing(settled) ==
    IF settled = <<>> THEN <<>>
    ELSE IF \E k \in 1..Len(settled) : settled[k].status = "rejected" THEN <<>>
    ELSE Head(settled).value \o FlatMapFulfilled_allOrNothing(Tail(settled))

\* line 96: settled.flatMap((r) => (r.status === "fulfilled" ? r.value : []))
RECURSIVE FlatMapFulfilled(_)
FlatMapFulfilled(settled) ==
    IF settled = <<>> THEN <<>>
    ELSE (IF Head(settled).status = "fulfilled" THEN Head(settled).value ELSE <<>>)
         \o FlatMapFulfilled(Tail(settled))

\* Map.prototype.set on the entry list of a Map: a key already present keeps
\* its place and takes the new value, a new key is appended
MapSet(entries, key, val) ==
    IF \E i \in 1..Len(entries) : entries[i].key = key
    THEN [i \in 1..Len(entries) |->
            IF entries[i].key = key THEN [key |-> key, val |-> val] ELSE entries[i]]
    ELSE Append(entries, [key |-> key, val |-> val])

\* line 98: new Map(all.map((m) => [m.toLowerCase().trim(), m.trim()]))
RECURSIVE NewMap(_, _)
NewMap(entries, all) ==
    IF all = <<>> THEN entries
    ELSE NewMap(MapSet(entries, trim(toLowerCase(Head(all))), trim(Head(all))),
                Tail(all))

\* [...map.values()]
MapValues(entries) == [i \in 1..Len(entries) |-> entries[i].val]

\* Array.prototype.sort() without comparator on an array of strings: ascending
\* by code units, stable (insertion of each element after the last one not
\* greater than it)
RECURSIVE SortInsert(_, _)
SortInsert(sorted, x) ==
    IF sorted = <<>> THEN <<x>>
    ELSE IF StrLess(x, Head(sorted)) THEN <<x>> \o sorted
    ELSE <<Head(sorted)>> \o SortInsert(Tail(sorted), x)

\* sort left out: the values in the order of the Map
sort_unsorted(arr) == arr

RECURSIVE sort(_)
sort(arr) ==
    IF arr = <<>> THEN <<>>
    ELSE SortInsert(sort(SubSeq(arr, 1, Len(arr) - 1)), arr[Len(arr)])

\* lines 96-98: the array passed to setMajors
Unique(settled) == sort(MapValues(NewMap(<<>>, FlatMapFulfilled(settled))))

\* DefaultMajor taking the other end of the list
DefaultMajor_last(unique) == IF unique = <<>> THEN <<>> ELSE unique[Len(unique)]

\* line 101: unique[0] ?? ""
DefaultMajor(unique) == IF unique = <<>> THEN <<>> ELSE unique[1]

----------------------------------------------------------------------------
(* The upstream service: the bodies it may answer with.  Strings are written
   as code units; the text they stand for is given beside them. *)

\* the options of the system select, lines 156-158, abbreviated to "CP"
\* (California Polytechnic University), "CS" (California State University)
\* and "UC" (University of California)
CalPoly == <<67, 80>>

Systems == {CalPoly, <<67, 83>>, <<85, 67>>}

\* line 55: the default receiving institution, "11"
DefaultInstitutionId == <<49, 49>>

\* GET /api/institutions: "11" named "CP S", "75" named "CP P", "21" named
\* "CS F", and the community colleges "2" named "Da" and "3" named "Db"
Catalog ==
    << [id |-> <<49, 49>>, isCommunityCollege |-> FALSE,
        names |-> << [name |-> <<67, 80, 32, 83>>] >>],
       [id |-> <<55, 53>>, isCommunityCollege |-> FALSE,
        names |-> << [name |-> <<67, 80, 32, 80>>] >>],
       [id |-> <<50, 49>>, isCommunityCollege |-> FALSE,
        names |-> << [name |-> <<67, 83, 32, 70>>] >>],
       [id |-> <<50>>, isCommunityCollege |-> TRUE,
        names |-> << [name |-> <<68, 97>>] >>],
       [id |-> <<51>>, isCommunityCollege |-> TRUE,
        names |-> << [name |-> <<68, 98>>] >> ] >>

\* entries of GET /api/institutions/{id}/agreements: "Da" with sending years
\* "74", "75"; "Zz", which no institution of the catalog is named, with
\* sending year "75"; "Db" with no year list
AgreementDa ==
    [institutionName |-> Some(<<68, 97>>), isCommunityCollege |-> TRUE,
     sendingYearIds |-> Some(<< <<55, 52>>, <<55, 53>> >>),
     receivingYearIds |-> Absent]

AgreementZz ==
    [institutionName |-> Some(<<90, 122>>), isCommunityCollege |-> TRUE,
     sendingYearIds |-> Some(<< <<55, 53>> >>),
     receivingYearIds |-> Absent]

AgreementDb ==
    [institutionName |-> Some(<<68, 98>>), isCommunityCollege |-> TRUE,
     sendingYearIds |-> Absent,
     receivingYearIds |-> Absent]

RawAgreements == {AgreementDa, AgreementZz, AgreementDb}

\* a second catalog, for the resolution alone: "9" without any name, "2"
\* named "Da", "3" named "Db" and also "Ed", then "11" named "CP S"
CatalogNameless ==
    << [id |-> <<57>>, isCommunityCollege |-> TRUE, names |-> <<>>],
       [id |-> <<50>>, isCommunityCollege |-> TRUE,
        names |-> << [name |-> <<68, 97>>] >>],
       [id |-> <<51>>, isCommunityCollege |-> TRUE,
        names |-> << [name |-> <<68, 98>>], [name |-> <<69, 100>>] >>],
       [id |-> <<49, 49>>, isCommunityCollege |-> FALSE,
        names |-> << [name |-> <<67, 80, 32, 83>>] >>] >>

\* the institution names of the entries for the resolution alone: none,
\* "Da", "D", "Ed", "da" and "Zz"
ResolveNames ==
    {Absent, Some(<<68, 97>>), Some(<<68>>), Some(<<69, 100>>),
     Some(<<100, 97>>), Some(<<90, 122>>)}

\* their year lists, sendingYearIds then receivingYearIds: ["74", "75"] and
\* none; [] and ["73"]; none and ["72", "73"]; ["75"] and ["73"]; [] and [];
\* none and none
ResolveYears ==
    { <<Some(<< <<55, 52>>, <<55, 53>> >>), Absent>>,
      <<Some(<<>>), Some(<< <<55, 51>> >>)>>,
      <<Absent, Some(<< <<55, 50>>, <<55, 51>> >>)>>,
      <<Some(<< <<55, 53>> >>), Some(<< <<55, 51>> >>)>>,
      <<Some(<<>>), Some(<<>>)>>,
      <<Absent, Absent>> }

\* the entries for the resolution alone: every name with the years ["74",
\* "75"] and none, and the name "Da" with every pair of year lists
ResolveAgreements ==
    { [institutionName |-> n, isCommunityCollege |-> TRUE,
       sendingYearIds |-> Some(<< <<55, 52>>, <<55, 53>> >>),
       receivingYearIds |-> Absent] : n \in ResolveNames }
    \cup
    { [institutionName |-> Some(<<68, 97>>), isCommunityCollege |-> TRUE,
       sendingYearIds |-> y[1], receivingYearIds |-> y[2]] : y \in ResolveYears }

\* sequences over S of length at most n
SeqsUpTo(S, n) == UNION {[1..m -> S] : m \in 0..n}

AgreementResponses == SeqsUpTo(RawAgreements, MaxAgreements)

ResolveResponses == SeqsUpTo(ResolveAgreements, MaxAgreements)

\* bodies of GET /api/agreements: no report list; one report labelled
\* U+00C9; a report labelled U+00E9 and a report without label
MajorResponses ==
    { [reports |-> Absent],
      [reports |-> Some(<< [label |-> Some(<<201>>)] >>)],
      [reports |-> Some(<< [label |-> Some(<<233>>)], [label |-> Absent] >>)] }

\* a wider choice of bodies for the join alone: also the labels "b", "a" in
\* one body, " A " with white space around it, and a report without label
\* followed by "z"
JoinResponses ==
    { [reports |-> Absent],
      [reports |-> Some(<< [label |-> Some(<<201>>)] >>)],
      [reports |-> Some(<< [label |-> Some(<<233>>)] >>)],
      [reports |-> Some(<< [label |-> Some(<<98>>)], [label |-> Some(<<97>>)] >>)],
      [reports |-> Some(<< [label |-> Some(<<32, 65, 32>>)] >>)],
      [reports |-> Some(<< [label |-> Absent], [label |-> Some(<<122>>)] >>)] }

\* the code units of the raw labels fed to the normaliser alone: space, "(",
\* ".", "B", "a" and the Kelvin sign U+212A
Alphabet == {32, 40, 46, 66, 97, 8490}

\* texts typed into the filter input, line 183
Queries == {<<>>, <<233>>}

----------------------------------------------------------------------------
(* State *)

VARIABLES
    lifecycle,                  \* "rendered", "mounted" or "unmounted"
    institutions,               \* useState, line 24
    institutions_filtered,      \* line 25
    selectedSystem,             \* line 26
    selectedInstitution,        \* line 27
    institutionsWithAgreements, \* line 28
    majors,                     \* line 29
    selectedMajor,              \* line 30
    query,                      \* line 31
    aborted,                    \* controller.signal.aborted, line 42
    invs,                       \* the invocations of the pipeline, in call order
    issued,                     \* every request handed to api.get so far
    raw,                        \* r.label of a report (normaliser alone)
    normalized                  \* the label after line 92, or Absent

reactVars == <<institutions, institutions_filtered, selectedSystem,
               selectedInstitution, institutionsWithAgreements, majors,
               selectedMajor, query>>

pipelineVars == <<lifecycle, aborted, invs, issued>>

pureVars == <<raw, normalized>>

vars == <<reactVars, pipelineVars, pureVars>>

\* line 27: "California Polytechnic University, San Luis Obispo", abbreviated
\* to "CP, S": a name, not the id of an option
InitialInstitution == <<67, 80, 44, 32, 83>>

\* the state after the first render, lines 24-31
InitReact ==
    /\ institutions = <<>>
    /\ institutions_filtered = <<>>
    /\ selectedSystem = CalPoly
    /\ selectedInstitution = InitialInstitution
    /\ institutionsWithAgreements = <<>>
    /\ majors = <<>>
    /\ selectedMajor = <<>>
    /\ query = <<>>

InitPipeline ==
    /\ lifecycle = "rendered"
    /\ aborted = FALSE
    /\ invs = <<>>
    /\ issued = {}

InitPure ==
    /\ raw = <<>>
    /\ normalized = Absent

Init == InitReact /\ InitPipeline /\ InitPure

----------------------------------------------------------------------------
(* Stage 1 of getAndSetInstitutionAgreements, lines 69-74 *)

\* inst.names.some((n) => n.name.includes(name))
HasNameIncluding(inst, name) ==
    \E j \in 1..Len(inst.names) : includes(inst.names[j].name, name)

\* FindId taking the last match in place of the first
FindId_lastMatch(schools, institutionName) ==
    LET hits == {j \in 1..Len(schools) : HasNameIncluding(schools[j], institutionName)}
    IN IF hits = {} THEN Absent
       ELSE Some(schools[CHOOSE j \in hits : \A h \in hits : j >= h].id)

\* schools.find(...)?.id, line 71: the id of the first match, or undefined
FindId(schools, institutionName) ==
    LET hits == {j \in 1..Len(schools) : HasNameIncluding(schools[j], institutionName)}
    IN IF hits = {} THEN Absent
       ELSE Some(schools[CHOOSE j \in hits : \A h \in hits : j <= h].id)

\* AtLast taking the first element, as at(0) would
AtLast_first(list) ==
    IF list = Absent \/ The(list) = <<>> THEN Absent
    ELSE Some(The(list)[1])

\* list?.at(-1)
AtLast(list) ==
    IF list = Absent \/ The(list) = <<>> THEN Absent
    ELSE Some(The(list)[Len(The(list))])

\* line 72: sendingYearIds?.at(-1) ?? receivingYearIds?.at(-1)
AcademicYearId(school) ==
    IF AtLast(school.sendingYearIds) # Absent
    THEN AtLast(school.sendingYearIds)
    ELSE AtLast(school.receivingYearIds)

\* Agreements without the default of line 70 (institutionName = ""): an entry
\* without name is left without id
Agreements_noDefaultName(data, schools) ==
    [k \in 1..Len(data) |->
        [id |-> (IF data[k].institutionName = Absent THEN Absent
                 ELSE FindId(schools, The(data[k].institutionName))),
         isCommunityCollege |-> data[k].isCommunityCollege,
         academicYearId |-> AcademicYearId(data[k])]]

\* lines 69-74: data.map(...)
Agreements(data, schools) ==
    [k \in 1..Len(data) |->
        [id |-> FindId(schools, OrElse(data[k].institutionName, <<>>)),
         isCommunityCollege |-> data[k].isCommunityCollege,
         academicYearId |-> AcademicYearId(data[k])]]

\* the filter of lines 49-51 and 109-111
FilterSystem(schools, name) ==
    SelectSeq(schools, LAMBDA inst :
        ~inst.isCommunityCollege /\ HasNameIncluding(inst, name))

----------------------------------------------------------------------------
(* Stage 2, lines 78-101 *)

\* !x for an optional string: undefined and "" are falsy
Falsy(x) == x = Absent \/ The(x) = <<>>

\* Skips testing the id alone
Skips_onlyWithoutId(agreement) == Falsy(agreement.id)

\* line 79: the request function returns [] without calling api.get
Skips(agreement) == Falsy(agreement.id) \/ Falsy(agreement.academicYearId)

Pending == [status |-> "pending"]

\* lines 78-93 up to the first await of each request function: the promises
\* of reqs
Reqs(agreements) ==
    [k \in 1..Len(agreements) |->
        IF Skips(agreements[k]) THEN Fulfilled(<<>>) ELSE Pending]

\* the calls of api.get made by lines 81-89 for invocation i, with the
\* parameters receivingInstitutionId, sendingInstitutionId, academicYearId
MajorFetches(i, institutionId, agreements, signal) ==
    { [inv |-> i, url |-> "agreements", k |-> k, signal |-> signal,
       params |-> <<Some(institutionId), agreements[k].id,
                    agreements[k].academicYearId>>] :
      k \in {j \in 1..Len(agreements) : ~Skips(agreements[j])} }

\* the call of api.get of line 67
AgreementsFetch(i, institutionId, signal) ==
    [inv |-> i, url |-> "institutions/agreements", k |-> 0, signal |-> signal,
     params |-> <<Some(institutionId)>>]

\* the call of api.get of line 46
CatalogFetch(i, signal) ==
    [inv |-> i, url |-> "institutions", k |-> 0, signal |-> signal,
     params |-> <<>>]

\* AllSettled as Promise.all would wait: for every promise to fulfil
AllSettled_allFulfilled(reqs) ==
    \A k \in 1..Len(reqs) : reqs[k].status = "fulfilled"

\* line 95: Promise.allSettled resumes once no promise of reqs is pending
AllSettled(reqs) == \A k \in 1..Len(reqs) : reqs[k].status # "pending"

\* An invocation of the pipeline.  pc is the await it is suspended at:
\* "catalog" (line 46, the mount effect only), "agreements" (line 67),
\* "majors" (line 95) or "done".  order lists the per-partner requests in the
\* order they settled; schools is the catalog the call was given; wrote, result and wroteAborted record the call of
\* setMajors of line 100 and whether the signal was aborted by then; logged
\* is the console.error call made, if any.
NewInvocation(institutionId, schools, signal, pc) ==
    [institutionId |-> institutionId, schools |-> schools, signal |-> signal,
     pc |-> pc, data |-> <<>>, agreements |-> <<>>, reqs |-> <<>>, order |-> <<>>,
     wrote |-> FALSE, result |-> <<>>, wroteAborted |-> FALSE,
     logged |-> "none"]

SignalAborted(signal) == signal = "controller" /\ aborted

\* Joined merging the outcomes in the order the requests settled, as a
\* result list filled by each request on arrival would
Joined_inCompletionOrder(r, nowAborted) ==
    [r EXCEPT !.pc = "done", !.wrote = TRUE,
              !.result = Unique([j \in 1..Len(r.order) |-> r.reqs[r.order[j]]]),
              !.wroteAborted = (r.signal = "controller" /\ nowAborted)]

\* lines 95-101 once every promise of reqs has settled, as seen in the
\* invocation record
Joined(r, nowAborted) ==
    [r EXCEPT !.pc = "done", !.wrote = TRUE, !.result = Unique(r.reqs),
              !.wroteAborted = (r.signal = "controller" /\ nowAborted)]

\* the record of invocation r after its per-partner promises became reqs2,
\* settling in the order given by settledNow
AfterSettle(r, reqs2, settledNow, nowAborted) ==
    LET r2 == [r EXCEPT !.reqs = reqs2, !.order = r.order \o settledNow]
    IN IF AllSettled(reqs2) THEN Joined(r2, nowAborted) ELSE r2

\* setMajors and setSelectedMajor of lines 100-101; a state update of a
\* component that has been unmounted is dropped
SetMajors(isMounted, unique) ==
    IF isMounted
    THEN majors' = unique /\ selectedMajor' = DefaultMajor(unique)
    ELSE UNCHANGED <<majors, selectedMajor>>

----------------------------------------------------------------------------
(* The mount effect, lines 41-62 *)

\* lines 42-46: the effect runs after the first render, creates the
\* controller and requests the catalog
MountEffect ==
    /\ lifecycle = "rendered"
    /\ lifecycle' = "mounted"
    /\ invs' = <<NewInvocation(DefaultInstitutionId, <<>>, "controller", "catalog")>>
    /\ issued' = issued \cup {CatalogFetch(1, "controller")}
    /\ UNCHANGED <<aborted, reactVars, pureVars>>

\* lines 46-55: the catalog arrives; the state is set and
\* getAndSetInstitutionAgreements("11", data, controller.signal) runs up to
\* its await of line 67
CatalogFulfilled(data) ==
    /\ Len(invs) >= 1
    /\ invs[1].pc = "catalog"
    /\ institutions' = data
    /\ institutions_filtered' = FilterSystem(data, CalPoly)
    /\ invs' = [invs EXCEPT ![1].pc = "agreements", ![1].schools = data]
    /\ issued' = issued \cup {AgreementsFetch(1, invs[1].institutionId, "controller")}
    /\ UNCHANGED <<lifecycle, aborted, selectedSystem, selectedInstitution,
                   institutionsWithAgreements, majors, selectedMajor, query,
                   pureVars>>

\* lines 56-58: the catalog request fails for a reason other than cancellation
CatalogRejected ==
    /\ Len(invs) >= 1
    /\ invs[1].pc = "catalog"
    /\ invs' = [invs EXCEPT ![1].pc = "done", ![1].logged = "institutions"]
    /\ UNCHANGED <<lifecycle, aborted, issued, reactVars, pureVars>>

----------------------------------------------------------------------------
(* getAndSetInstitutionAgreements, lines 64-105 *)

\* lines 67-101: the agreement list arrives for invocation i.  The entries
\* are resolved, the per-partner requests are issued, and when none of them
\* is pending the join of line 95 resumes in the same turn.
AgreementsFulfilled(i, data) ==
    /\ i \in 1..Len(invs)
    /\ invs[i].pc = "agreements"
    /\ LET r == invs[i]
           agreements == Agreements(data, r.schools)
           reqs == Reqs(agreements)
           r2 == [r EXCEPT !.pc = "majors", !.data = data,
                           !.agreements = agreements]
           r3 == AfterSettle(r2, reqs, <<>>, SignalAborted(r.signal))
       IN /\ invs' = [invs EXCEPT ![i] = r3]
          /\ issued' = issued \cup
                 MajorFetches(i, r.institutionId, agreements, r.signal)
          /\ institutionsWithAgreements' =
                 (IF lifecycle = "mounted" THEN agreements
                  ELSE institutionsWithAgreements)
          /\ IF r3.wrote
             THEN SetMajors(lifecycle = "mounted", r3.result)
             ELSE UNCHANGED <<majors, selectedMajor>>
    /\ UNCHANGED <<lifecycle, aborted, institutions, institutions_filtered,
                   selectedSystem, selectedInstitution, query, pureVars>>

\* AgreementsRejected without the console.error of line 103
AgreementsRejected_silent(i) ==
    /\ i \in 1..Len(invs)
    /\ invs[i].pc = "agreements"
    /\ invs' = [invs EXCEPT ![i].pc = "done"]
    /\ UNCHANGED <<lifecycle, aborted, issued, reactVars, pureVars>>

\* lines 102-104: the agreement-list request fails for a reason other than
\* cancellation
AgreementsRejected(i) ==
    /\ i \in 1..Len(invs)
    /\ invs[i].pc = "agreements"
    /\ invs' = [invs EXCEPT ![i].pc = "done", ![i].logged = "agreements"]
    /\ UNCHANGED <<lifecycle, aborted, issued, reactVars, pureVars>>

\* request k of invocation i settles with outcome; lines 95-101 follow in the
\* same turn when it was the last one pending
SettleMajor(i, k, outcome) ==
    /\ invs[i].pc = "majors"
    /\ k \in 1..Len(invs[i].reqs)
    /\ invs[i].reqs[k].status = "pending"
    /\ LET r == invs[i]
           r2 == AfterSettle(r, [r.reqs EXCEPT ![k] = outcome], <<k>>,
                             SignalAborted(r.signal))
       IN /\ invs' = [invs EXCEPT ![i] = r2]
          /\ IF r2.wrote
             THEN SetMajors(lifecycle = "mounted", r2.result)
             ELSE UNCHANGED <<majors, selectedMajor>>
    /\ UNCHANGED <<lifecycle, aborted, issued, institutions,
                   institutions_filtered, selectedSystem, selectedInstitution,
                   institutionsWithAgreements, query, pureVars>>

\* lines 81-92: the per-partner request is answered
MajorFulfilled(i, k, majorsResp) ==
    /\ i \in 1..Len(invs)
    /\ SettleMajor(i, k, Fulfilled(MajorsOf(majorsResp)))

\* the per-partner request fails for a reason other than cancellation
MajorRejected(i, k) ==
    /\ i \in 1..Len(invs)
    /\ SettleMajor(i, k, Rejected("error"))

----------------------------------------------------------------------------
(* The handlers, lines 107-145 and 183, and the cleanup of line 61 *)

\* the option a controlled select shows: the one whose value is
\* selectedInstitution, else the first one
DisplayedInstitution ==
    IF \E j \in 1..Len(institutions_filtered) :
           institutions_filtered[j].id = selectedInstitution
    THEN selectedInstitution
    ELSE institutions_filtered[1].id

\* lines 131-140; the select is rendered when institutions_filtered is not
\* empty (line 164) and onChange fires for an option other than the one shown
handleInstitutionSelect(value) ==
    /\ lifecycle = "mounted"
    /\ institutions_filtered # <<>>
    /\ \E j \in 1..Len(institutions_filtered) : institutions_filtered[j].id = value
    /\ value # DisplayedInstitution
    /\ Len(invs) < 1 + MaxSelects
    /\ selectedInstitution' = value
    /\ majors' = <<>>
    /\ selectedMajor' = <<>>
    /\ query' = <<>>
    /\ invs' = Append(invs, NewInvocation(value, institutions, "none", "agreements"))
    /\ issued' = issued \cup {AgreementsFetch(Len(invs) + 1, value, "none")}
    /\ UNCHANGED <<lifecycle, aborted, institutions, institutions_filtered,
                   selectedSystem, institutionsWithAgreements, pureVars>>

\* handleSystemSelect without the setSelectedMajor("") of line 125
handleSystemSelect_keepsSelectedMajor(value) ==
    /\ lifecycle = "mounted"
    /\ value \in Systems
    /\ value # selectedSystem
    /\ majors' = <<>>
    /\ query' = <<>>
    /\ selectedInstitution' = <<>>
    /\ selectedSystem' = value
    /\ institutions_filtered' = FilterSystem(institutions, value)
    /\ UNCHANGED <<pipelineVars, institutions, institutionsWithAgreements,
                   selectedMajor, pureVars>>

\* lines 119-129 with setSystemInstitutions, lines 107-113
handleSystemSelect(value) ==
    /\ lifecycle = "mounted"
    /\ value \in Systems
    /\ value # selectedSystem
    /\ majors' = <<>>
    /\ selectedMajor' = <<>>
    /\ query' = <<>>
    /\ selectedInstitution' = <<>>
    /\ selectedSystem' = value
    /\ institutions_filtered' = FilterSystem(institutions, value)
    /\ UNCHANGED <<pipelineVars, institutions, institutionsWithAgreements,
                   pureVars>>

\* lines 33-39
filteredMajors ==
    IF trim(query) = <<>> THEN majors
    ELSE SelectSeq(majors, LAMBDA m : includes(toLowerCase(m), toLowerCase(query)))

\* lines 142-145; the buttons are rendered when majors is not empty (line
\* 178) and the one of the selected major is hidden (line 196)
handleMajorPick(major) ==
    /\ lifecycle = "mounted"
    /\ majors # <<>>
    /\ \E j \in 1..Len(filteredMajors) : filteredMajors[j] = major
    /\ major # selectedMajor
    /\ selectedMajor' = major
    /\ query' = <<>>
    /\ UNCHANGED <<pipelineVars, institutions, institutions_filtered,
                   selectedSystem, selectedInstitution,
                   institutionsWithAgreements, majors, pureVars>>

\* line 183: the filter input, rendered when majors is not empty
setQuery(text) ==
    /\ lifecycle = "mounted"
    /\ majors # <<>>
    /\ text \in Queries
    /\ text # query
    /\ query' = text
    /\ UNCHANGED <<pipelineVars, institutions, institutions_filtered,
                   selectedSystem, selectedInstitution,
                   institutionsWithAgreements, majors, selectedMajor, pureVars>>

\* the indices of the pending promises of reqs, ascending
RECURSIVE PendingFrom(_, _)
PendingFrom(reqs, k) ==
    IF k > Len(reqs) THEN <<>>
    ELSE (IF reqs[k].status = "pending" THEN <<k>> ELSE <<>>)
         \o PendingFrom(reqs, k + 1)

\* Cancelled with catch clauses that do not test axios.isCancel (lines 57
\* and 103)
Cancelled_logged(r) ==
    IF r.signal # "controller" THEN r
    ELSE IF r.pc = "catalog"
         THEN [r EXCEPT !.pc = "done", !.logged = "institutions"]
    ELSE IF r.pc = "agreements"
         THEN [r EXCEPT !.pc = "done", !.logged = "agreements"]
    ELSE IF r.pc = "majors"
         THEN AfterSettle(r,
                  [k \in 1..Len(r.reqs) |->
                      IF r.reqs[k].status = "pending" THEN Rejected("cancel")
                      ELSE r.reqs[k]],
                  PendingFrom(r.reqs, 1), TRUE)
    ELSE r

\* invocation r once its signal is aborted: the request it awaits is
\* rejected with a cancellation.  At lines 46 and 67 the rejection reaches a
\* catch that ignores it (lines 57, 103); the per-partner promises reject
\* into Promise.allSettled, which fulfils, and lines 96-101 run.
Cancelled(r) ==
    IF r.signal # "controller" THEN r
    ELSE IF r.pc \in {"catalog", "agreements"} THEN [r EXCEPT !.pc = "done"]
    ELSE IF r.pc = "majors"
         THEN AfterSettle(r,
                  [k \in 1..Len(r.reqs) |->
                      IF r.reqs[k].status = "pending" THEN Rejected("cancel")
                      ELSE r.reqs[k]],
                  PendingFrom(r.reqs, 1), TRUE)
    ELSE r

\* line 61: the component is unmounted and the cleanup aborts the controller.
\* The state updates of the resumed invocation reach an unmounted component.
Unmount ==
    /\ lifecycle = "mounted"
    /\ lifecycle' = "unmounted"
    /\ aborted' = TRUE
    /\ invs' = [i \in 1..Len(invs) |-> Cancelled(invs[i])]
    /\ UNCHANGED <<issued, reactVars, pureVars>>

----------------------------------------------------------------------------
(* The component and its environment *)

\* the indices an invocation can have
Invocations == 1..(1 + MaxSelects)

\* the labels a majors list can hold
PossibleMajors == UNION {Range(MajorsOf(resp)) : resp \in MajorResponses}

Next ==
    \/ MountEffect
    \/ \E data \in {Catalog} : CatalogFulfilled(data)
    \/ CatalogRejected
    \/ \E i \in Invocations, data \in AgreementResponses :
           AgreementsFulfilled(i, data)
    \/ \E i \in Invocations : AgreementsRejected(i)
    \/ \E i \in Invocations, k \in 1..MaxAgreements, resp \in MajorResponses :
           MajorFulfilled(i, k, resp)
    \/ \E i \in Invocations, k \in 1..MaxAgreements : MajorRejected(i, k)
    \/ \E inst \in Range(Catalog) : handleInstitutionSelect(inst.id)
    \/ \E value \in Systems : handleSystemSelect(value)
    \/ \E major \in PossibleMajors : handleMajorPick(major)
    \/ \E text \in Queries : setQuery(text)
    \/ Unmount

Spec == Init /\ [][Next]_vars

----------------------------------------------------------------------------
(* The component when every agreement list holds the one partner "Da": each
   invocation joins on one per-partner request *)

NextPick ==
    \/ MountEffect
    \/ \E data \in {Catalog} : CatalogFulfilled(data)
    \/ CatalogRejected
    \/ \E i \in Invocations, data \in {<<AgreementDa>>} :
           AgreementsFulfilled(i, data)
    \/ \E i \in Invocations : AgreementsRejected(i)
    \/ \E i \in Invocations, k \in {1}, resp \in MajorResponses :
           MajorFulfilled(i, k, resp)
    \/ \E i \in Invocations, k \in {1} : MajorRejected(i, k)
    \/ \E inst \in Range(Catalog) : handleInstitutionSelect(inst.id)
    \/ \E value \in Systems : handleSystemSelect(value)
    \/ \E major \in PossibleMajors : handleMajorPick(major)
    \/ \E text \in Queries : setQuery(text)
    \/ Unmount

SpecPick == Init /\ [][NextPick]_vars

----------------------------------------------------------------------------
(* The component when the user leaves the selects alone: the pipeline started
   by the mount effect, up to its end or the unmount *)

NextMount ==
    \/ MountEffect
    \/ \E data \in {Catalog} : CatalogFulfilled(data)
    \/ CatalogRejected
    \/ \E data \in AgreementResponses : AgreementsFulfilled(1, data)
    \/ AgreementsRejected(1)
    \/ \E k \in 1..MaxAgreements, resp \in MajorResponses : MajorFulfilled(1, k, resp)
    \/ \E k \in 1..MaxAgreements : MajorRejected(1, k)
    \/ Unmount

SpecMount == Init /\ [][NextMount]_vars

----------------------------------------------------------------------------
(* The mount pipeline when the effect runs and every request issued is
   answered, fails or is cancelled *)

\* bodies of GET /api/agreements with at most one report: no report list,
\* and one report labelled U+00C9
SettleResponses ==
    { [reports |-> Absent],
      [reports |-> Some(<< [label |-> Some(<<201>>)] >>)] }

CatalogSettles == (\E data \in {Catalog} : CatalogFulfilled(data)) \/ CatalogRejected

AgreementsSettles ==
    (\E data \in AgreementResponses : AgreementsFulfilled(1, data))
    \/ AgreementsRejected(1)

MajorSettles ==
    \E k \in 1..MaxAgreements :
        (\E resp \in SettleResponses : MajorFulfilled(1, k, resp))
        \/ MajorRejected(1, k)

NextSettle ==
    \/ MountEffect
    \/ CatalogSettles
    \/ AgreementsSettles
    \/ MajorSettles
    \/ Unmount

SpecMountFair ==
    /\ Init
    /\ [][NextSettle]_vars
    /\ WF_vars(MountEffect)
    /\ WF_vars(CatalogSettles)
    /\ WF_vars(AgreementsSettles)
    /\ WF_vars(MajorSettles)

----------------------------------------------------------------------------
(* The resolution alone: the mount invocation up to the end of its first
   turn after line 67, for either catalog and the wider agreement lists *)

NextResolve ==
    \/ MountEffect
    \/ \E data \in {Catalog, CatalogNameless} : CatalogFulfilled(data)
    \/ \E data \in ResolveResponses : AgreementsFulfilled(1, data)

SpecResolve == Init /\ [][NextResolve]_vars

----------------------------------------------------------------------------
(* The join alone: the mount invocation suspended at line 95 on n requests,
   one per agreement with "Da", which settle in any order *)

JoinData(n) == [k \in 1..n |-> AgreementDa]

\* the state MountEffect, CatalogFulfilled and AgreementsFulfilled(1,
\* JoinData(n)) lead to
InitJoin ==
    \E n \in 1..MaxSettled :
        LET agreements == Agreements(JoinData(n), Catalog)
        IN /\ lifecycle = "mounted"
           /\ aborted = FALSE
           /\ institutions = Catalog
           /\ institutions_filtered = FilterSystem(Catalog, CalPoly)
           /\ selectedSystem = CalPoly
           /\ selectedInstitution = InitialInstitution
           /\ institutionsWithAgreements = agreements
           /\ majors = <<>>
           /\ selectedMajor = <<>>
           /\ query = <<>>
           /\ invs = << [NewInvocation(DefaultInstitutionId, Catalog,
                                       "controller", "majors")
                           EXCEPT !.data = JoinData(n),
                                  !.agreements = agreements,
                                  !.reqs = Reqs(agreements)] >>
           /\ issued = {CatalogFetch(1, "controller"),
                        AgreementsFetch(1, DefaultInstitutionId, "controller")}
                       \cup MajorFetches(1, DefaultInstitutionId, agreements,
                                         "controller")
           /\ InitPure

NextJoin ==
    \/ \E k \in 1..MaxSettled, resp \in JoinResponses : MajorFulfilled(1, k, resp)
    \/ \E k \in 1..MaxSettled : MajorRejected(1, k)

SpecJoin == InitJoin /\ [][NextJoin]_vars

----------------------------------------------------------------------------
(* The normaliser alone: line 92 applied to the label of one report *)

InitNorm ==
    /\ InitReact
    /\ InitPipeline
    /\ raw \in SeqsUpTo(Alphabet, MaxLen)
    /\ normalized = Absent

\* line 92: toTitleCase((r.label ?? "").trim())
Normalize ==
    /\ normalized = Absent
    /\ normalized' = Some(normalize(raw))
    /\ UNCHANGED <<raw, reactVars, pipelineVars>>

SpecNorm == InitNorm /\ [][Normalize]_vars

----------------------------------------------------------------------------
(* Vocabulary of the properties *)

\* invocation i awaits a request that has not settled
InFlight(i) ==
    \/ invs[i].pc \in {"catalog", "agreements"}
    \/ invs[i].pc = "majors" /\ ~AllSettled(invs[i].reqs)

\* the step is the one in which invocation i calls setMajors
Writes(i) == ~invs[i].wrote /\ invs'[i].wrote

----------------------------------------------------------------------------
(* C1: results of a superseded selection never overwrite current state: a
   step in which an invocation calls setMajors and changes the majors list
   is a step of the invocation started last. *)
C1_NoStaleOverwrite ==
    [][\A i \in 1..Len(invs) :
          (Writes(i) /\ majors' # majors) => i = Len(invs)]_vars

(* C2: every request carries the signal of the controller of the active
   selection, and only the invocation started last has requests in flight,
   none once the component is unmounted: the requests of the previous
   selection were cancelled before the new ones were issued. *)
C2_FetchesCarrySignalAndAreCancelled ==
    /\ \A f \in issued : f.signal = "controller"
    /\ \A i \in 1..Len(invs) : InFlight(i) => i = Len(invs)
    /\ lifecycle = "unmounted" => \A i \in 1..Len(invs) : ~InFlight(i)

(* C3: no invocation calls setMajors and setSelectedMajor once its signal
   has been aborted. *)
C3_NoWriteAfterAbort ==
    \A i \in 1..Len(invs) : ~invs[i].wroteAborted

----------------------------------------------------------------------------
(* Vocabulary of the properties of the merged list *)

\* the identity of a label for deduplication: lower-cased and trimmed
Key(x) == trim(toLowerCase(x))

\* the labels of the fulfilled requests, partner by partner in agreement
\* order, each partner's in the order of its reports
RECURSIVE LabelsUpTo(_, _)
LabelsUpTo(reqs, n) ==
    IF n = 0 THEN <<>>
    ELSE LabelsUpTo(reqs, n - 1)
         \o (IF reqs[n].status = "fulfilled" THEN reqs[n].value ELSE <<>>)

LabelsInAgreementOrder(reqs) == LabelsUpTo(reqs, Len(reqs))

\* a comes before b in code-unit order: at the first position where they
\* differ a ends or holds the smaller code unit
LexLess(a, b) ==
    \E p \in 1..(Len(b)) :
        /\ p <= Len(a) + 1
        /\ \A q \in 1..(p - 1) : a[q] = b[q]
        /\ p = Len(a) + 1 \/ a[p] < b[p]

Ascending(list) ==
    \A j \in 1..(Len(list) - 1) : ~LexLess(list[j + 1], list[j])

NoTwoWithSameKey(list) ==
    \A j, h \in 1..Len(list) : j # h => Key(list[j]) # Key(list[h])

\* the first and the last label of L with the key
FirstWithKey(L, key) ==
    L[CHOOSE p \in 1..Len(L) :
          Key(L[p]) = key /\ \A q \in 1..(p - 1) : Key(L[q]) # key]

LastOfItsKey(L, p) == \A q \in (p + 1)..Len(L) : Key(L[q]) # Key(L[p])

Done(i) == i \in 1..Len(invs) /\ invs[i].pc = "done" /\ invs[i].wrote

----------------------------------------------------------------------------
(* C4: partial-failure isolation.  Whatever subset of the per-partner
   requests rejects, the join completes as soon as all have settled, logs
   nothing, and writes a list without duplicate keys, ascending, whose
   entries are labels of fulfilled requests and whose keys are exactly the
   keys of the labels of the fulfilled requests. *)
C4_PartialFailureIsolation ==
    \A i \in 1..Len(invs) :
        LET r == invs[i]
            L == LabelsInAgreementOrder(r.reqs)
        IN /\ r.pc = "majors" => ~AllSettled(r.reqs)
           /\ r.pc = "done" =>
                /\ r.wrote
                /\ r.logged = "none"
                /\ majors = r.result
                /\ NoTwoWithSameKey(r.result)
                /\ Ascending(r.result)
                /\ Range(r.result) \subseteq {trim(x) : x \in Range(L)}
                /\ {Key(x) : x \in Range(r.result)} = {Key(x) : x \in Range(L)}

\* two requests rejected, then the third fulfilled with one label: the list
\* is that label
C4_Witness ==
    /\ Done(1)
    /\ Len(invs[1].reqs) = 3
    /\ invs[1].order = <<1, 2, 3>>
    /\ invs[1].reqs[1].status = "rejected"
    /\ invs[1].reqs[2].status = "rejected"
    /\ invs[1].reqs[3] = Fulfilled(<< <<201>> >>)
    /\ majors = << <<201>> >>

(* C6: deduplication.  The list holds no two entries with the same key, and
   the entry kept for a key is the first label with that key in agreement
   order. *)
C6_FirstSeenKept ==
    \A i \in 1..Len(invs) :
        Done(i) =>
            LET L == LabelsInAgreementOrder(invs[i].reqs)
            IN /\ NoTwoWithSameKey(invs[i].result)
               /\ \A x \in Range(invs[i].result) :
                      x = trim(FirstWithKey(L, Key(x)))

(* C7: ordering.  The list written is ascending in code-unit order. *)
C7_SortedAscending ==
    \A i \in 1..Len(invs) :
        Done(i) => Ascending(invs[i].result) /\ Ascending(majors)

\* four labels collected out of order, the last of which, U+00C9, comes
\* after "Z" in code-unit order
C7_Witness ==
    /\ Done(1)
    /\ ~Ascending(LabelsInAgreementOrder(invs[1].reqs))
    /\ majors = << <<>>, <<65>>, <<90>>, <<201>> >>

(* C8: completion-order independence.  The list written is determined by
   the outcomes taken in agreement order, whatever the order in which the
   requests settled: it is the ascending arrangement of the labels that are
   the last of their key in agreement order. *)
C8_CompletionOrderIndependent ==
    \A i \in 1..Len(invs) :
        Done(i) =>
            LET L == LabelsInAgreementOrder(invs[i].reqs)
                kept == {trim(L[p]) : p \in {q \in 1..Len(L) : LastOfItsKey(L, q)}}
            IN /\ Range(invs[i].result) = kept
               /\ Len(invs[i].result) = Cardinality(kept)
               /\ Ascending(invs[i].result)

\* the second request settled before the first, and the two hold labels of
\* the same key in different casing
C8_Witness ==
    /\ Done(1)
    /\ invs[1].order = <<2, 1>>
    /\ invs[1].reqs[1] = Fulfilled(<< <<201>> >>)
    /\ invs[1].reqs[2] = Fulfilled(<< <<233>> >>)
    /\ majors = << <<233>> >>

(* C9 as stated: the join sets the selected major to the first element of
   the list, and the selected major is empty if and only if the list is
   empty. *)
C9_EmptyOnlyIfListEmpty ==
    \A i \in 1..Len(invs) :
        Done(i) =>
            /\ majors = invs[i].result
            /\ selectedMajor = (IF majors = <<>> THEN <<>> ELSE majors[1])
            /\ selectedMajor = <<>> <=> majors = <<>>

(* C9 amended: in the step in which the join writes the list, the selected
   major is set to the first element of the list, or to the empty string
   when the list is empty; it is empty exactly when the list is empty or
   begins with the empty label. *)
C9_DefaultSelection ==
    [][\A i \in 1..Len(invs) :
          (Writes(i) /\ lifecycle' = "mounted") =>
              /\ majors' = invs'[i].result
              /\ majors' = <<>> => selectedMajor' = <<>>
              /\ majors' # <<>> => selectedMajor' = majors'[1]
              /\ selectedMajor' = <<>> <=>
                     (majors' = <<>> \/ majors'[1] = <<>>)]_vars

\* a list that begins with the empty label has been written
C9_Witness ==
    /\ Done(1)
    /\ Len(majors) > 1
    /\ majors[1] = <<>>
    /\ selectedMajor = <<>>

(* C5: missing-data tolerance.  Once the agreement list is resolved, a
   per-partner request has been issued exactly for the entries that have
   both a partner id and an academic year, with these as its parameters; an
   entry missing either is answered with the empty list without a request,
   and nothing is logged. *)
C5_MissingDataTolerance ==
    \A i \in 1..Len(invs) :
        LET r == invs[i]
            fetches == {f \in issued : f.inv = i /\ f.url = "agreements"}
            complete == {k \in 1..Len(r.agreements) :
                            /\ r.agreements[k].id # Absent
                            /\ r.agreements[k].academicYearId # Absent}
        IN (r.pc \in {"majors", "done"} /\ r.logged = "none"
              /\ ~(r.pc = "done" /\ ~r.wrote)) =>
             /\ Len(r.agreements) = Len(r.data)
             /\ Len(r.reqs) = Len(r.data)
             /\ {f.k : f \in fetches} = complete
             /\ Cardinality(fetches) = Cardinality(complete)
             /\ \A f \in fetches :
                    f.params = <<Some(r.institutionId), r.agreements[f.k].id,
                                 r.agreements[f.k].academicYearId>>
             /\ \A k \in 1..Len(r.agreements) :
                    k \notin complete => r.reqs[k] = Fulfilled(<<>>)

\* an entry without academic year and an entry with both: one request, whose
\* answer is the list written
C5_Witness ==
    /\ Done(1)
    /\ invs[1].data = <<AgreementDb, AgreementDa>>
    /\ invs[1].agreements[1].id # Absent
    /\ invs[1].agreements[1].academicYearId = Absent
    /\ Cardinality({f \in issued : f.url = "agreements"}) = 1
    /\ majors # <<>>

(* C10: the normaliser of line 92 (trim, then toTitleCase) is idempotent. *)
C10_NormalizeIdempotent ==
    normalized # Absent => normalize(The(normalized)) = The(normalized)

----------------------------------------------------------------------------
(* Vocabulary of the properties of the normaliser *)

\* position p of t lies in a token: a word character stands at p or between
\* p and the last white space before p
InToken(t, p) ==
    \E q \in 1..p : IsWordChar(t[q]) /\ \A h \in q..p : ~IsSpace(t[h])

\* the first and the last position of the token position p lies in
TokenFirst(t, p) ==
    CHOOSE q \in 1..p :
        /\ IsWordChar(t[q])
        /\ \A h \in q..p : ~IsSpace(t[h])
        /\ \A h \in 1..(q - 1) : ~(IsWordChar(t[h]) /\ \A g \in h..q : ~IsSpace(t[g]))

TokenLast(t, p) ==
    CHOOSE q \in p..Len(t) :
        /\ \A h \in p..q : ~IsSpace(t[h])
        /\ q = Len(t) \/ IsSpace(t[q + 1])

\* two or more single letters each followed by a period, then nothing, a
\* bare letter, or one more period
LettersAndPeriods(word) ==
    LET pairs == Len(word) \div 2
    IN /\ pairs >= 2
       /\ \A k \in 1..pairs : IsAsciiLetter(word[2 * k - 1]) /\ word[2 * k] = 46
       /\ Len(word) % 2 = 1 =>
              IsAsciiLetter(word[Len(word)]) \/ word[Len(word)] = 46

(* C11: the initialism rule.  In the normalised label every token (a word
   character and what follows it up to the next white space) made of two or
   more single letters each followed by a period, optionally with a trailing
   bare letter or period, is the token in upper case; every other token has
   its first character in upper case and the rest in lower case; what lies
   outside the tokens is unchanged.  "b.s. in computer science" becomes
   "B.S. In Computer Science". *)
C11_InitialismRule ==
    /\ normalized # Absent =>
         LET t == trim(raw)
             out == The(normalized)
         IN /\ Len(out) = Len(t)
            /\ \A p \in 1..Len(t) :
                  IF ~InToken(t, p) THEN out[p] = t[p]
                  ELSE LET a == TokenFirst(t, p)
                           b == TokenLast(t, p)
                       IN IF LettersAndPeriods(SubSeq(t, a, b))
                          THEN out[p] = ToUpperChar(t[p])
                          ELSE out[p] = (IF p = a THEN ToUpperChar(t[p])
                                         ELSE ToLowerChar(t[p]))
    /\ normalize(<<98, 46, 115, 46, 32, 105, 110, 32, 99, 111, 109, 112, 117,
                   116, 101, 114, 32, 115, 99, 105, 101, 110, 99, 101>>)
         = <<66, 46, 83, 46, 32, 73, 110, 32, 67, 111, 109, 112, 117,
             116, 101, 114, 32, 83, 99, 105, 101, 110, 99, 101>>

\* "a.B." has become "A.B."
C11_Witness ==
    /\ raw = <<97, 46, 66, 46>>
    /\ normalized = Some(<<65, 46, 66, 46>>)

----------------------------------------------------------------------------
(* Vocabulary of the properties of the resolution *)

\* invocation i has resolved the agreement list it received
Resolved(i) ==
    /\ i \in 1..Len(invs)
    /\ \/ invs[i].pc = "majors"
       \/ invs[i].pc = "done" /\ invs[i].wrote

NonEmptyList(list) == list # Absent /\ Len(The(list)) > 0

LastOf(list) == The(list)[Len(The(list))]

\* text occurs in name, code unit for code unit
OccursIn(text, name) ==
    \E offset \in 0..Len(name) :
        /\ offset + Len(text) <= Len(name)
        /\ \A c \in 1..Len(text) : name[offset + c] = text[c]

\* institution j of schools has a display name in which text occurs
NamedLike(schools, j, text) ==
    \E n \in 1..Len(schools[j].names) : OccursIn(text, schools[j].names[n].name)

(* C12: the academic year of every resolved entry is the last element of
   sendingYearIds when that list is present and not empty, otherwise the
   last element of receivingYearIds, and absent when neither list has an
   element. *)
C12_AcademicYearIsLastOfList ==
    \A i \in 1..Len(invs) :
        Resolved(i) =>
            /\ Len(invs[i].agreements) = Len(invs[i].data)
            /\ \A k \in 1..Len(invs[i].data) :
                   LET e == invs[i].data[k]
                       year == invs[i].agreements[k].academicYearId
                   IN IF NonEmptyList(e.sendingYearIds)
                      THEN year = Some(LastOf(e.sendingYearIds))
                      ELSE IF NonEmptyList(e.receivingYearIds)
                      THEN year = Some(LastOf(e.receivingYearIds))
                      ELSE year = Absent

\* an entry with sending years "74", "75" has year "75", and one with an
\* empty sending list and receiving years "72", "73" falls back to "73"
C12_Witness ==
    /\ Resolved(1)
    /\ Len(invs[1].data) = 2
    /\ invs[1].data[1].sendingYearIds = Some(<< <<55, 52>>, <<55, 53>> >>)
    /\ invs[1].agreements[1].academicYearId = Some(<<55, 53>>)
    /\ invs[1].data[2].sendingYearIds = Absent
    /\ invs[1].data[2].receivingYearIds = Some(<< <<55, 50>>, <<55, 51>> >>)
    /\ invs[1].agreements[2].academicYearId = Some(<<55, 51>>)

(* C13: the partner id of every entry that has an institution name is the
   id of the first institution of the catalog, in catalog order, one of
   whose display names contains that name code unit for code unit, and is
   absent when there is none; the entry is kept in the resolved sequence,
   which is the one stored, either way. *)
C13_FirstMatchInCatalogOrder ==
    \A i \in 1..Len(invs) :
        Resolved(i) =>
            /\ Len(invs[i].agreements) = Len(invs[i].data)
            /\ lifecycle = "mounted" => institutionsWithAgreements = invs[i].agreements
            /\ \A k \in 1..Len(invs[i].data) :
                   LET e == invs[i].data[k]
                       schools == invs[i].schools
                       id == invs[i].agreements[k].id
                   IN /\ invs[i].agreements[k].isCommunityCollege = e.isCommunityCollege
                      /\ e.institutionName # Absent =>
                           LET text == The(e.institutionName)
                           IN IF \E j \in 1..Len(schools) : NamedLike(schools, j, text)
                              THEN \E j \in 1..Len(schools) :
                                      /\ NamedLike(schools, j, text)
                                      /\ \A h \in 1..(j - 1) : ~NamedLike(schools, h, text)
                                      /\ id = Some(schools[j].id)
                              ELSE id = Absent

\* "D" occurs in the names of "2" and of "3" and resolves to "2"; "da"
\* occurs in no name and the entry is kept without id
C13_Witness ==
    /\ Resolved(1)
    /\ Len(invs[1].data) = 2
    /\ invs[1].data[1].institutionName = Some(<<68>>)
    /\ invs[1].agreements[1].id = Some(<<50>>)
    /\ invs[1].data[2].institutionName = Some(<<100, 97>>)
    /\ invs[1].agreements[2].id = Absent
    /\ Len(institutionsWithAgreements) = 2

(* C20: an entry without institution name is matched as the empty string: it
   takes the id of the first institution of the catalog that has at least
   one display name, and when it has an academic year a per-partner request
   is issued for that institution. *)
C20_AbsentNameMatchesFirstNamed ==
    \A i \in 1..Len(invs) :
        Resolved(i) =>
            \A k \in 1..Len(invs[i].data) :
                invs[i].data[k].institutionName = Absent =>
                    LET schools == invs[i].schools
                        named == {j \in 1..Len(schools) : Len(schools[j].names) > 0}
                        a == invs[i].agreements[k]
                    IN /\ named # {} =>
                            \E j \in named :
                                /\ \A h \in named : j <= h
                                /\ a.id = Some(schools[j].id)
                       /\ (named # {} /\ a.academicYearId # Absent) =>
                            \E f \in issued :
                                /\ f.inv = i
                                /\ f.url = "agreements"
                                /\ f.k = k
                                /\ f.params = <<Some(invs[i].institutionId),
                                                a.id, a.academicYearId>>

\* with the catalog whose first institution, "9", has no name, an entry
\* without name and with sending years "74", "75" is requested from "2"
C20_Witness ==
    /\ Resolved(1)
    /\ invs[1].schools = CatalogNameless
    /\ Len(invs[1].data) = 1
    /\ invs[1].data[1].institutionName = Absent
    /\ invs[1].agreements[1].id = Some(<<50>>)
    /\ \E f \in issued :
           f.url = "agreements" /\ f.params = <<Some(<<49, 49>>), Some(<<50>>),
                                                Some(<<55, 53>>)>>

----------------------------------------------------------------------------
(* Vocabulary of the properties of the failures *)

\* invocation i has issued the request of line 67
AskedAgreements(i) ==
    \E f \in issued : f.inv = i /\ f.url = "institutions/agreements"

\* invocation i has issued a per-partner request
AskedMajors(i) == \E f \in issued : f.inv = i /\ f.url = "agreements"

\* invocation i ended at line 67 although its signal is not aborted: the
\* request of line 67 failed
FailedAtAgreements(i) ==
    /\ AskedAgreements(i)
    /\ invs[i].pc = "done"
    /\ ~invs[i].wrote
    /\ ~SignalAborted(invs[i].signal)

(* C14: a failure of the agreement-list request other than a cancellation
   ends the invocation: it issues no per-partner request, never calls
   setMajors or setSelectedMajor, logs "Fetch agreements failed", and
   returns to its caller, which logs nothing. *)
C14_AgreementListFailureEndsAttempt ==
    \A i \in 1..Len(invs) :
        /\ FailedAtAgreements(i) => invs[i].logged = "agreements"
        /\ invs[i].logged = "agreements" =>
               /\ invs[i].pc = "done"
               /\ ~invs[i].wrote
               /\ invs[i].reqs = <<>>
               /\ ~AskedMajors(i)

\* the agreement-list request of the mount invocation has failed while the
\* component is mounted, and majors and selectedMajor are as they were
C14_Witness ==
    /\ Len(invs) >= 1
    /\ FailedAtAgreements(1)
    /\ lifecycle = "mounted"
    /\ invs[1].logged = "agreements"
    /\ majors = <<>>
    /\ selectedMajor = <<>>

(* C15: a per-partner request that fails for a reason other than a
   cancellation is logged and contributes no majors: an invocation one of
   whose per-partner requests was rejected with an error has made a
   console.error call, and the list it writes holds labels of its fulfilled
   requests only. *)
C15_PartnerFailureLogged ==
    \A i \in 1..Len(invs) :
        (\E k \in 1..Len(invs[i].reqs) : invs[i].reqs[k] = Rejected("error")) =>
            /\ invs[i].logged # "none"
            /\ invs[i].wrote =>
                   \A j \in 1..Len(invs[i].result) :
                       \E k \in 1..Len(invs[i].reqs) :
                           /\ invs[i].reqs[k].status = "fulfilled"
                           /\ \E m \in 1..Len(invs[i].reqs[k].value) :
                                  invs[i].reqs[k].value[m] = invs[i].result[j]

(* C16: a cancellation is never logged and never reaches the caller: a step
   that leaves the controller aborted makes no console.error call for an
   invocation bound to it, and leaves every such invocation finished. *)
C16_CancellationNeverLogged ==
    [][\A i \in 1..Len(invs) :
          (invs[i].signal = "controller" /\ aborted') =>
              /\ invs'[i].logged = invs[i].logged
              /\ invs'[i].pc = "done"]_vars

\* the controller was aborted while per-partner requests were pending: they
\* are rejected as cancelled, the join has run, and nothing is logged
C16_Witness ==
    /\ aborted
    /\ Len(invs) >= 1
    /\ invs[1].pc = "done"
    /\ invs[1].logged = "none"
    /\ \E k \in 1..Len(invs[1].reqs) : invs[1].reqs[k] = Rejected("cancel")

----------------------------------------------------------------------------
(* C17: termination.  When every request issued settles, the invocation of
   the mount effect finishes; once its agreement list has arrived it
   finishes having called setMajors, whatever number of its per-partner
   requests reject, and after that call it takes no further step, so the
   call is made once. *)
C17_Termination ==
    /\ (Len(invs) >= 1) ~> (Len(invs) >= 1 /\ invs[1].pc = "done")
    /\ (Len(invs) >= 1 /\ invs[1].pc = "majors")
           ~> (Len(invs) >= 1 /\ invs[1].pc = "done" /\ invs[1].wrote)
    /\ [][\A i \in 1..Len(invs) :
             invs[i].wrote => /\ invs'[i] = invs[i]
                              /\ invs[i].pc = "done"]_vars

\* the invocation has finished and written although every one of its two
\* per-partner requests was rejected
C17_Witness ==
    /\ Len(invs) >= 1
    /\ ~aborted
    /\ invs[1].pc = "done"
    /\ invs[1].wrote
    /\ Len(invs[1].reqs) = 2
    /\ \A k \in 1..2 : invs[1].reqs[k] = Rejected("error")

----------------------------------------------------------------------------
(* C18: gaps in the shape of the data do not interrupt the aggregation.  The
   step in which a per-partner request is answered by a body without report
   list fulfils its promise with no majors; answered by a body with reports,
   it fulfils it with one label per report, the empty string for a report
   without label; nothing is logged; and the empty string is in the list
   written whenever it is a label of a fulfilled request. *)
C18_DataShapeGapsTolerated ==
    [][/\ \A k \in 1..MaxSettled, resp \in JoinResponses :
             MajorFulfilled(1, k, resp) =>
                 LET settled == invs'[1].reqs[k]
                 IN /\ settled.status = "fulfilled"
                    /\ invs'[1].logged = "none"
                    /\ IF resp.reports = Absent
                       THEN settled.value = <<>>
                       ELSE /\ Len(settled.value) = Len(The(resp.reports))
                            /\ \A j \in 1..Len(The(resp.reports)) :
                                   The(resp.reports)[j].label = Absent =>
                                       settled.value[j] = <<>>
       /\ Done(1)' =>
             \A k \in 1..Len(invs'[1].reqs) :
                 (/\ invs'[1].reqs[k].status = "fulfilled"
                  /\ \E j \in 1..Len(invs'[1].reqs[k].value) :
                         invs'[1].reqs[k].value[j] = <<>>) =>
                     \E j \in 1..Len(invs'[1].result) : invs'[1].result[j] = <<>>
      ]_vars

\* one request was answered without report list and one with a report
\* without label followed by "z": the list written is "", "Z"
C18_Witness ==
    /\ Done(1)
    /\ Len(invs[1].reqs) = 2
    /\ invs[1].reqs[1] = Fulfilled(<<>>)
    /\ invs[1].reqs[2] = Fulfilled(<< <<>>, <<90>> >>)
    /\ invs[1].result = << <<>>, <<90>> >>
    /\ majors = << <<>>, <<90>> >>

----------------------------------------------------------------------------
(* C19: in every reachable state, whatever selections of a system or of an
   institution, picks of a major and completions of pipeline invocations led
   to it, the selected major is the empty string or an element of the majors
   list. *)
C19_SelectedMajorInMajors ==
    \/ selectedMajor = <<>>
    \/ \E j \in 1..Len(majors) : majors[j] = selectedMajor

\* after an institution was selected and a list written, a major other than
\* the default one has been picked
C19_Witness ==
    /\ Len(invs) = 2
    /\ invs[2].wrote
    /\ selectedMajor # <<>>
    /\ Len(majors) >= 2
    /\ majors[1] # selectedMajor
    /\ \E j \in 2..Len(majors) : majors[j] = selectedMajor

====
